---- MODULE Spec2Model ----
(***************************************************************************)
(* Record store of the Retro Notes Manager (src/notes_app/app.py): notes   *)
(* kept as rows of one worksheet, row 1 being the header.  Text is a       *)
(* sequence of one-character strings so that str() and int() are real      *)
(* conversions.  A cell holds None, an integer or text, as openpyxl cells  *)
(* do.  The wall clock is taken to be non-decreasing; datetime.now() is    *)
(* read in ticks and strftime keeps whole seconds only.                    *)
(***************************************************************************)
EXTENDS Integers, Sequences, FiniteSets, TLC

VARIABLES file, clock, last, run, procs, writers

vars == <<file, clock, last, run, procs, writers>>

(* ------------------------------- bounds -------------------------------- *)
MaxRows == 2
MaxId == 3
MaxClock == 2
MaxCalls == 4
TicksPerSecond == 2

(* ------------------------------- values -------------------------------- *)
NoneV == [t |-> "none", n |-> 0, s |-> <<>>]
IntV(n) == [t |-> "int", n |-> n, s |-> <<>>]
StrV(s) == [t |-> "str", n |-> 0, s |-> s]

\* Python truthiness of a cell value or argument.
Truthy(c) ==
    CASE c.t = "none" -> FALSE
      [] c.t = "int" -> c.n # 0
      [] OTHER -> c.s # <<>>

Digits == <<"0", "1", "2", "3", "4", "5", "6", "7", "8", "9">>

RECURSIVE IntToStr(_)
\* str(n) of a non-negative integer: its decimal digits.
IntToStr(n) ==
    IF n < 10 THEN <<Digits[n + 1]>>
    ELSE IntToStr(n \div 10) \o <<Digits[(n % 10) + 1]>>

\* str(v): "None" for None, the decimal digits of an integer, text as it is.
PyStr(c) ==
    CASE c.t = "none" -> <<"N", "o", "n", "e">>
      [] c.t = "int" -> IntToStr(c.n)
      [] OTHER -> c.s

DigitVal(ch) == (CHOOSE i \in 1..10 : Digits[i] = ch) - 1

IsDecimal(s) == s # <<>> /\ \A i \in 1..Len(s) : \E d \in 1..10 : Digits[d] = s[i]

RECURSIVE StrToInt(_)
\* int(s) of a string of decimal digits (int() raises ValueError otherwise).
StrToInt(s) ==
    IF Len(s) = 1 THEN DigitVal(s[1])
    ELSE 10 * StrToInt(SubSeq(s, 1, Len(s) - 1)) + DigitVal(s[Len(s)])

\* The value as stored, None included.
OrEmpty_Missing(c) == c

\* v or "": a falsy cell value read as the empty text.
OrEmpty(c) == IF Truthy(c) THEN c ELSE StrV(<<>>)

\* datetime.now(): the clock reading, in ticks.
DatetimeNow == clock

\* strftime("%Y-%m-%d %H:%M:%S"): whole seconds, zero padded to a fixed width.
Strftime(c) ==
    LET sec == c \div TicksPerSecond
    IN  StrV(<<Digits[((sec \div 10) % 10) + 1], Digits[(sec % 10) + 1]>>)

(* -------------------------------- file --------------------------------- *)
HEADERS ==
    << StrV(<<"I", "D">>), StrV(<<"T", "i", "t", "l", "e">>),
       StrV(<<"C", "o", "n", "t", "e", "n", "t">>),
       StrV(<<"D", "a", "t", "e", "C", "r", "e", "a", "t", "e", "d">>),
       StrV(<<"L", "a", "s", "t", "M", "o", "d", "i", "f", "i", "e", "d">>) >>

NoFile == [exists |-> FALSE, rows |-> <<>>]

\* A cell as the workbook writer stores it: empty text is written as an empty cell.
StoredCell(c) == IF c.t = "str" /\ c.s = <<>> THEN NoneV ELSE c

\* workbook.save(DB_PATH): the whole sheet replaces the file.
WorkbookSave(rows) ==
    [exists |-> TRUE,
     rows |-> [i \in 1..Len(rows) |-> [j \in 1..Len(rows[i]) |-> StoredCell(rows[i][j])]]]

\* The header-only file written whether or not a file exists.
EnsureDatabase_Always(f) == WorkbookSave(<<HEADERS>>)

\* ensure_database(): create the file with the header row if it does not exist.
EnsureDatabase(f) == IF f.exists THEN f ELSE WorkbookSave(<<HEADERS>>)

\* load_workbook(DB_PATH) and get_sheet: the rows of the active sheet.
LoadWorkbook(f) == f.rows

\* The rows iterated from the first row of the sheet.
DataRowIdx_FromHeader(rows) == 1..Len(rows)

\* iter_rows(min_row=2): the indices of the data rows.
DataRowIdx(rows) == 2..Len(rows)

RECURSIVE NotesFrom_StopsAtBlank(_, _)
\* The scan ended at the first row without an ID.
NotesFrom_StopsAtBlank(rows, i) ==
    IF i > Len(rows) \/ ~Truthy(rows[i][1]) THEN <<>>
    ELSE << [id |-> PyStr(rows[i][1]),
             title |-> OrEmpty(rows[i][2]),
             content |-> OrEmpty(rows[i][3]),
             date_created |-> OrEmpty(rows[i][4]),
             last_modified |-> OrEmpty(rows[i][5])] >> \o NotesFrom_StopsAtBlank(rows, i + 1)

RECURSIVE NotesFrom(_, _)
NotesFrom(rows, i) ==
    IF i > Len(rows) THEN <<>>
    ELSE IF ~Truthy(rows[i][1]) THEN NotesFrom(rows, i + 1)
    ELSE << [id |-> PyStr(rows[i][1]),
             title |-> OrEmpty(rows[i][2]),
             content |-> OrEmpty(rows[i][3]),
             date_created |-> OrEmpty(rows[i][4]),
             last_modified |-> OrEmpty(rows[i][5])] >> \o NotesFrom(rows, i + 1)

\* load_notes(): one note per data row whose ID cell is truthy, in row order.
LoadNotes(f) == NotesFrom(LoadWorkbook(EnsureDatabase(f)), 2)

\* The number of notes taken for the largest id.
MaxIdOf_Count(notes) == Len(notes)

RECURSIVE MaxIdOf(_)
MaxIdOf(notes) ==
    IF Len(notes) = 1 THEN StrToInt(notes[1].id)
    ELSE LET m == MaxIdOf(Tail(notes))
             h == StrToInt(notes[1].id)
         IN  IF h > m THEN h ELSE m

\* The largest id itself.
GetNextId_NoIncrement(notes) == IF notes = <<>> THEN 1 ELSE MaxIdOf(notes)

\* The number of notes plus one.
GetNextId_Count(notes) == Len(notes) + 1

\* get_next_id(notes): 1 for no notes, else the largest int(id) plus one.
GetNextId(notes) == IF notes = <<>> THEN 1 ELSE MaxIdOf(notes) + 1

\* int(note["id"]) raises ValueError for some note.
NextIdRaises(notes) == \E i \in 1..Len(notes) : ~IsDecimal(notes[i].id)

\* IDs compared as numbers where both read as numbers.
Matching_Numeric(rows, note_id) ==
    {i \in 2..Len(rows) :
        \/ PyStr(rows[i][1]) = PyStr(note_id)
        \/ /\ IsDecimal(PyStr(rows[i][1])) /\ IsDecimal(PyStr(note_id))
           /\ StrToInt(PyStr(rows[i][1])) = StrToInt(PyStr(note_id))}

\* The data rows whose ID cell reads, as text, like the argument.
Matching(rows, note_id) == {i \in DataRowIdx(rows) : PyStr(rows[i][1]) = PyStr(note_id)}

\* The last matching row taken for the first.
FirstOf_Last(S) == CHOOSE i \in S : \A j \in S : i >= j

\* The loop over the rows stops at its first match.
FirstOf(S) == CHOOSE i \in S : \A j \in S : i <= j

\* DateCreated refreshed as well.
UpdateRow_TouchesCreated(rows, i, title, content, now) ==
    [rows EXCEPT ![i] = [@ EXCEPT ![2] = title, ![3] = content, ![4] = now, ![5] = now]]

\* LastModified left as it was.
UpdateRow_StaleModified(rows, i, title, content, now) ==
    [rows EXCEPT ![i] = [@ EXCEPT ![2] = title, ![3] = content]]

\* save_note, lines 79-87: title, content and LastModified of the first matching row.
UpdateRow(rows, i, title, content, now) ==
    [rows EXCEPT ![i] = [@ EXCEPT ![2] = title, ![3] = content, ![5] = now]]

\* LastModified left empty in the new row.
AppendRow_NoModified(rows, new_id, title, content, now) ==
    Append(rows, <<IntV(new_id), title, content, now, NoneV>>)

\* Title and content in each other's column.
AppendRow_SwapsText(rows, new_id, title, content, now) ==
    Append(rows, <<IntV(new_id), content, title, now, now>>)

\* save_note, line 91: sheet.append([new_id, title, content, now, now]).
AppendRow(rows, new_id, title, content, now) ==
    Append(rows, <<IntV(new_id), title, content, now, now>>)

\* The row below the one asked for is removed.
DeleteRows_OffByOne(rows, idx) == SubSeq(rows, 1, idx) \o SubSeq(rows, idx + 2, Len(rows))

\* sheet.delete_rows(idx, 1): the row is removed and the rows below move up.
DeleteRows(rows, idx) == SubSeq(rows, 1, idx - 1) \o SubSeq(rows, idx + 1, Len(rows))

\* save_note(note_id, title, content) at clock reading c: the file it leaves,
\* the text it returns, and whether it raised instead.
SaveNote(f, note_id, title, content, c) ==
    LET f1 == EnsureDatabase(f)
        rows == LoadWorkbook(f1)
        now == Strftime(c)
        hit == IF Truthy(note_id) THEN Matching(rows, note_id) ELSE {}
    IN  IF hit # {}
        THEN [file |-> WorkbookSave(UpdateRow(rows, FirstOf(hit), title, content, now)),
              ret |-> PyStr(note_id), raised |-> FALSE, created |-> FALSE]
        ELSE LET notes == LoadNotes(f1)
             IN  IF NextIdRaises(notes)
                 THEN [file |-> f1, ret |-> <<>>, raised |-> TRUE, created |-> FALSE]
                 ELSE LET new_id == GetNextId(notes)
                      IN  [file |-> WorkbookSave(AppendRow(rows, new_id, title, content, now)),
                           ret |-> PyStr(IntV(new_id)), raised |-> FALSE, created |-> TRUE]

\* delete_note(note_id): the first matching row is removed; the file is rewritten.
DeleteNote(f, note_id) ==
    LET rows == LoadWorkbook(EnsureDatabase(f))
        hit == Matching(rows, note_id)
    IN  WorkbookSave(IF hit # {} THEN DeleteRows(rows, FirstOf(hit)) ELSE rows)

\* find_note(note_id): the first loaded note with that id; <<>> stands for None.
FindNote(f, note_id) ==
    LET notes == LoadNotes(f)
        hit == {i \in 1..Len(notes) : notes[i].id = PyStr(note_id)}
    IN  IF hit = {} THEN <<>> ELSE <<notes[FirstOf(hit)]>>

(* ------------------------------- inputs -------------------------------- *)
\* note_id as the callers pass it: the decimal text of an id or a zero-padded
\* id; save_note is also given None or the empty text.
IdTexts == {IntToStr(n) : n \in 1..MaxId} \cup {<<"0", "1">>}

NoteIdArgs == {StrV(s) : s \in IdTexts}

SaveIdArgs == {NoneV, StrV(<<>>)} \cup NoteIdArgs

\* (title, content) pairs; the content may be empty.
NoteTexts == {<<StrV(<<"a">>), StrV(<<>>)>>, <<StrV(<<"b">>), StrV(<<"x">>)>>}

(* ------------------------------ operations ----------------------------- *)
\* What is remembered of the call before a find_note.
NoCall ==
    [op |-> "none", arg |-> NoneV, title |-> NoneV, content |-> NoneV, ret |-> <<>>,
     matched |-> FALSE, raised |-> FALSE]

Brief(l) ==
    [op |-> l.op, arg |-> l.arg, title |-> l.title, content |-> l.content,
     ret |-> l.ret, matched |-> l.matched, raised |-> l.raised]

\* The record of a completed call: its arguments, what it returned, the file
\* it found (before) and, for save_note, the clock reading it took (at).
Idle ==
    [op |-> "none", arg |-> NoneV, title |-> NoneV, content |-> NoneV, ret |-> <<>>,
     found |-> <<>>, listed |-> <<>>, created |-> FALSE, raised |-> FALSE,
     matched |-> FALSE, before |-> NoFile, at |-> 0, prev |-> NoCall,
     password |-> <<>>, outcome |-> "none", looked |-> FALSE, encrypted |-> FALSE,
     payload |-> <<>>]

\* Whether a data row of the file matches the argument.
HasMatch(f, note_id) == Matching(LoadWorkbook(EnsureDatabase(f)), note_id) # {}

Procs == {"p", "q"}

\* A caller between calls, and what a caller in a call holds: its arguments,
\* the clock reading (at), the sheet it loaded (wb), the notes it loaded, the
\* file as it was when the sheet was loaded (base) and as it was when the
\* notes were loaded (seen).  writers names who wrote the file last and who
\* wrote it before that.
Caller ==
    [pc |-> "idle", op |-> "none", arg |-> NoneV, title |-> NoneV, content |-> NoneV,
     at |-> 0, wb |-> <<>>, notes |-> <<>>, base |-> NoFile, seen |-> NoFile,
     ret |-> <<>>, raised |-> FALSE, calls |-> 0]

Init ==
    /\ file = NoFile
    /\ clock = 0
    /\ last = Idle
    /\ run = <<>>
    /\ procs = [p \in Procs |-> Caller]
    /\ writers = <<"none", "none">>

\* A creation stays within the bounds of the model.
CreationFits(r) ==
    r.created => /\ Len(r.file.rows) - 1 <= MaxRows
                 /\ StrToInt(r.ret) <= MaxId

\* Time passes.
Tick ==
    /\ clock < MaxClock
    /\ clock' = clock + 1
    /\ UNCHANGED <<file, last, run, procs, writers>>

\* ensure_database() called on its own (program start).
Ensure ==
    /\ file' = EnsureDatabase(file)
    /\ last' = [Idle EXCEPT !.op = "ensure", !.before = file]
    /\ run' = <<>>
    /\ UNCHANGED <<clock, procs, writers>>

\* One call save_note(note_id, title, content).
SaveCall(note_id, text) ==
    \E r \in {SaveNote(file, note_id, text[1], text[2], DatetimeNow)} :
        /\ CreationFits(r)
        /\ file' = r.file
        /\ last' = [Idle EXCEPT !.op = "save", !.arg = note_id, !.title = text[1],
                                !.content = text[2], !.ret = r.ret,
                                !.created = r.created, !.raised = r.raised,
                                !.matched = ~r.created /\ ~r.raised,
                                !.before = file, !.at = DatetimeNow]
        /\ run' = IF ~Truthy(note_id) /\ ~r.raised THEN Append(run, r.ret) ELSE <<>>
        /\ UNCHANGED <<clock, procs, writers>>

\* One call delete_note(note_id).
DeleteCall(note_id) ==
    /\ file' = DeleteNote(file, note_id)
    /\ last' = [Idle EXCEPT !.op = "delete", !.arg = note_id,
                            !.matched = HasMatch(file, note_id), !.before = file]
    /\ run' = <<>>
    /\ UNCHANGED <<clock, procs, writers>>

\* One call find_note(note_id).
FindCall(note_id) ==
    /\ file' = EnsureDatabase(file)
    /\ last' = [Idle EXCEPT !.op = "find", !.arg = note_id,
                            !.found = FindNote(file, note_id),
                            !.before = file, !.prev = Brief(last)]
    /\ run' = <<>>
    /\ UNCHANGED <<clock, procs, writers>>

\* save_note(note_id, title, content)
Save == \E note_id \in SaveIdArgs, text \in NoteTexts : SaveCall(note_id, text)

\* delete_note(note_id)
Delete == \E note_id \in NoteIdArgs : DeleteCall(note_id)

\* find_note(note_id)
Find == \E note_id \in NoteIdArgs : FindCall(note_id)

\* load_notes() as listAll
ListAll ==
    /\ file' = EnsureDatabase(file)
    /\ last' = [Idle EXCEPT !.op = "list", !.listed = LoadNotes(file), !.before = file]
    /\ run' = <<>>
    /\ UNCHANGED <<clock, procs, writers>>

Next == Tick \/ Ensure \/ Save \/ Delete \/ Find \/ ListAll

Spec == Init /\ [][Next]_vars

(* --------------------------- secure exporter --------------------------- *)
\* PBKDF2HMAC, Fernet and base64 are taken as ideal: each result is the term
\* of what went into it, so two results agree only when their inputs do.

\* derive_key(password, salt): the key PBKDF2-HMAC-SHA256 derives, base64 coded.
DeriveKey(password, salt) == [kdf |-> "pbkdf2-sha256", password |-> password, salt |-> salt]

\* fernet.encrypt(plaintext): a token only its key opens.
FernetEncrypt(key, plaintext) == [key |-> key, plaintext |-> plaintext]

\* base64.b64encode(salt)
B64Encode(bytes) == [b64 |-> bytes]

\* The f-string of encrypt_note, lines 141-146.
Plaintext(note) ==
    <<"T", "i", "t", "l", "e", ":", " ">> \o PyStr(note.title) \o <<"\n">>
    \o <<"C", "r", "e", "a", "t", "e", "d", ":", " ">> \o PyStr(note.date_created)
    \o <<"\n">>
    \o <<"L", "a", "s", "t", " ", "M", "o", "d", "i", "f", "i", "e", "d", ":", " ">>
    \o PyStr(note.last_modified) \o <<"\n", "\n">>
    \o PyStr(note.content)

\* The key derived without the salt.
EncryptNote_KeyNoSalt(note, password, salt) ==
    <<B64Encode(salt), "\n", FernetEncrypt(DeriveKey(password, <<>>), Plaintext(note))>>

\* encrypt_note(note, password) with salt the 16 bytes os.urandom returns:
\* base64(salt), a newline, the token.
EncryptNote(note, password, salt) ==
    <<B64Encode(salt), "\n", FernetEncrypt(DeriveKey(password, salt), Plaintext(note))>>

\* The note looked up before the password is tested.
ExportFlow_LooksUpFirst(f, note_id, password, salt) ==
    LET note == FindNote(f, note_id)
    IN  IF password = <<>> \/ note = <<>>
        THEN [file |-> EnsureDatabase(f),
              outcome |-> IF password = <<>> THEN "view_note" ELSE "index",
              looked |-> TRUE, encrypted |-> FALSE, payload |-> <<>>]
        ELSE [file |-> EnsureDatabase(f), outcome |-> "send_file", looked |-> TRUE,
              encrypted |-> TRUE, payload |-> EncryptNote(note[1], password, salt)]

\* export(note_id) with the posted password: where the request ends
\* (redirect to view_note, redirect to index, or the file sent), whether
\* find_note and encrypt_note were called, and the file it leaves.
ExportFlow(f, note_id, password, salt) ==
    IF password = <<>>
    THEN [file |-> f, outcome |-> "view_note", looked |-> FALSE, encrypted |-> FALSE,
          payload |-> <<>>]
    ELSE LET note == FindNote(f, note_id)
         IN  IF note = <<>>
             THEN [file |-> EnsureDatabase(f), outcome |-> "index", looked |-> TRUE,
                   encrypted |-> FALSE, payload |-> <<>>]
             ELSE [file |-> EnsureDatabase(f), outcome |-> "send_file", looked |-> TRUE,
                   encrypted |-> TRUE, payload |-> EncryptNote(note[1], password, salt)]

(* ------------------ a file that was edited by hand --------------------- *)
\* Rows as a spreadsheet program leaves them: a cleared row, a row with ID 0,
\* and note rows, two of them with the same ID.
BlankRow == <<NoneV, NoneV, NoneV, NoneV, NoneV>>

ZeroRow == <<IntV(0), StrV(<<"z">>), NoneV, Strftime(0), Strftime(0)>>

NoteRow(n, title) ==
    <<IntV(n), StrV(title), StrV(<<"x">>), Strftime(0), Strftime(TicksPerSecond)>>

ExtRows == {BlankRow, ZeroRow, NoteRow(1, <<"a">>), NoteRow(1, <<"b">>), NoteRow(2, <<"b">>)}

ExtFiles ==
    {NoFile, WorkbookSave(<<HEADERS>>)}
    \cup {WorkbookSave(<<HEADERS, r>>) : r \in ExtRows}
    \cup {WorkbookSave(<<HEADERS, r1, r2>>) : r1 \in ExtRows, r2 \in ExtRows}

\* note_id as text: ids, the text of None, of 0 and of the header's first cell.
ExtIdArgs ==
    {StrV(<<"1">>), StrV(<<"2">>), StrV(<<"N", "o", "n", "e">>), StrV(<<"0">>),
     StrV(<<"I", "D">>)}

Passwords == {<<>>, <<"p">>}

Salts == {<<"s", "1">>, <<"s", "2">>}

\* The file was last written before the program reads the clock.
InitExt ==
    /\ file \in ExtFiles
    /\ clock = MaxClock
    /\ last = Idle
    /\ run = <<>>
    /\ procs = [p \in Procs |-> Caller]
    /\ writers = <<"none", "none">>

SaveExt == \E note_id \in ExtIdArgs \cup {NoneV}, text \in NoteTexts : SaveCall(note_id, text)

DeleteExt == \E note_id \in ExtIdArgs : DeleteCall(note_id)

FindExt == \E note_id \in ExtIdArgs : FindCall(note_id)

\* export(note_id), lines 195-210
Export ==
    \E note_id \in ExtIdArgs, password \in Passwords, salt \in Salts :
        \E r \in {ExportFlow(file, note_id, password, salt)} :
            /\ file' = r.file
            /\ last' = [Idle EXCEPT !.op = "export", !.arg = note_id,
                                    !.password = password, !.outcome = r.outcome,
                                    !.looked = r.looked, !.encrypted = r.encrypted,
                                    !.payload = r.payload, !.before = file]
            /\ run' = <<>>
            /\ UNCHANGED <<clock, procs, writers>>

NextExt == Ensure \/ SaveExt \/ DeleteExt \/ FindExt \/ ListAll \/ Export

SpecExt == InitExt /\ [][NextExt]_vars

(* ------------------ every ID that save has handed out ------------------ *)
\* Creations and deletions with run kept as the sequence of all IDs the
\* creations returned so far, deletions in between included.

\* save_note(None, title, content)
SaveAlloc ==
    \E text \in NoteTexts :
        \E r \in {SaveNote(file, NoneV, text[1], text[2], DatetimeNow)} :
            /\ Len(run) < MaxCalls
            /\ CreationFits(r)
            /\ file' = r.file
            /\ last' = [Idle EXCEPT !.op = "save", !.arg = NoneV, !.title = text[1],
                                    !.content = text[2], !.ret = r.ret,
                                    !.created = r.created, !.raised = r.raised,
                                    !.before = file]
            /\ run' = Append(run, r.ret)
            /\ UNCHANGED <<clock, procs, writers>>

\* delete_note(note_id)
DeleteAlloc ==
    \E note_id \in NoteIdArgs :
        /\ file' = DeleteNote(file, note_id)
        /\ last' = [Idle EXCEPT !.op = "delete", !.arg = note_id,
                                !.matched = HasMatch(file, note_id), !.before = file]
        /\ UNCHANGED <<clock, run, procs, writers>>

NextAlloc == SaveAlloc \/ DeleteAlloc

SpecAlloc == Init /\ [][NextAlloc]_vars

(* ------------------- calls of callers that overlap --------------------- *)
\* Each step below is one access to the file (ensure_database taken together
\* with the load that follows it) and the computation up to the next access.

\* What callers pass in the overlapping calls.
ConcIdArgs == {StrV(IntToStr(n)) : n \in 1..MaxRows}

ConcSaveIdArgs == {NoneV} \cup ConcIdArgs

\* Each caller saves a text of its own, so that the notes tell who wrote them.
ConcText(p) ==
    IF p = "p" THEN <<StrV(<<"a">>), StrV(<<>>)>> ELSE <<StrV(<<"b">>), StrV(<<"x">>)>>

\* The caller after ensure_database and load_workbook: it holds the sheet.
Loaded(c, op, note_id, text, f) ==
    [Caller EXCEPT !.pc = "loaded", !.op = op, !.arg = note_id,
                   !.title = text[1], !.content = text[2], !.at = DatetimeNow,
                   !.wb = LoadWorkbook(EnsureDatabase(f)), !.base = EnsureDatabase(f),
                   !.seen = EnsureDatabase(f), !.calls = c.calls + 1]

RECURSIVE CallsOf(_)
\* The calls the callers in S have begun.
CallsOf(S) ==
    IF S = {} THEN 0
    ELSE LET p == CHOOSE x \in S : TRUE IN procs[p].calls + CallsOf(S \ {p})

\* A caller begins a call when it is in none; the model stops at MaxCalls calls.
CanCall(c) == c.pc \in {"idle", "returned"} /\ CallsOf(Procs) < MaxCalls

\* save_note, lines 74-77: ensure_database, load_workbook, now.
SaveLoad(p) ==
    \E note_id \in ConcSaveIdArgs, text \in {ConcText(p)} :
        /\ CanCall(procs[p])
        /\ file' = EnsureDatabase(file)
        /\ procs' = [procs EXCEPT ![p] = Loaded(@, "save", note_id, text, file)]
        /\ UNCHANGED <<clock, last, run, writers>>

\* The rows of the loaded sheet that save_note's loop (lines 79-81) matches.
LoopHit(c) == IF Truthy(c.arg) THEN Matching(c.wb, c.arg) ELSE {}

Return(p, rows, ret) ==
    /\ file' = WorkbookSave(rows)
    /\ writers' = <<p, writers[1]>>
    /\ procs' = [procs EXCEPT ![p].pc = "returned", ![p].ret = ret,
                              ![p].wb = <<>>, ![p].notes = <<>>]
    /\ UNCHANGED <<clock, last, run>>

\* save_note, lines 82-87: the matching row is changed in the loaded sheet,
\* which is saved.
SaveWriteUpdate(p) ==
    LET c == procs[p]
    IN  /\ c.pc = "loaded" /\ c.op = "save"
        /\ LoopHit(c) # {}
        /\ Return(p, UpdateRow(c.wb, FirstOf(LoopHit(c)), c.title, c.content,
                               Strftime(c.at)),
                  PyStr(c.arg))

\* save_note, line 89: load_notes() reads the file again.
SaveLoadNotes(p) ==
    LET c == procs[p]
        notes == LoadNotes(file)
    IN  /\ c.pc = "loaded" /\ c.op = "save"
        /\ LoopHit(c) = {}
        /\ Len(notes) < MaxRows
        /\ ~NextIdRaises(notes) => GetNextId(notes) <= MaxId
        /\ file' = EnsureDatabase(file)
        /\ procs' = [procs EXCEPT ![p].pc = IF NextIdRaises(notes) THEN "returned"
                                            ELSE "notes",
                                  ![p].raised = NextIdRaises(notes),
                                  ![p].notes = notes,
                                  ![p].seen = EnsureDatabase(file)]
        /\ UNCHANGED <<clock, last, run, writers>>

\* save_note, lines 90-94: the new row is appended to the loaded sheet, which
\* is saved.
SaveWriteNew(p) ==
    LET c == procs[p]
        new_id == GetNextId(c.notes)
    IN  /\ c.pc = "notes"
        /\ Return(p, AppendRow(c.wb, new_id, c.title, c.content, Strftime(c.at)),
                  PyStr(IntV(new_id)))

\* delete_note, lines 99-101: ensure_database, load_workbook.
DeleteLoad(p) ==
    \E note_id \in ConcIdArgs :
        /\ CanCall(procs[p])
        /\ file' = EnsureDatabase(file)
        /\ procs' = [procs EXCEPT ![p] =
                        Loaded(@, "delete", note_id, <<NoneV, NoneV>>, file)]
        /\ UNCHANGED <<clock, last, run, writers>>

\* delete_note, lines 102-107: the first matching row is removed from the
\* loaded sheet, which is saved.
DeleteWrite(p) ==
    LET c == procs[p]
        hit == Matching(c.wb, c.arg)
    IN  /\ c.pc = "loaded" /\ c.op = "delete"
        /\ Return(p, IF hit # {} THEN DeleteRows(c.wb, FirstOf(hit)) ELSE c.wb, <<>>)

NextConc ==
    \E p \in Procs :
        \/ SaveLoad(p)
        \/ SaveWriteUpdate(p)
        \/ SaveLoadNotes(p)
        \/ SaveWriteNew(p)
        \/ DeleteLoad(p)
        \/ DeleteWrite(p)

SpecConc == Init /\ [][NextConc]_vars

(* ------------- whole calls on a file that overlapping calls left -------- *)
\* The overlapping callers have all returned and make no further call.
Settled ==
    /\ CallsOf(Procs) = MaxCalls
    /\ \A p \in Procs : procs[p].pc \in {"idle", "returned"}

\* delete_note and find_note called one after the other on the file the
\* overlapping callers left.
DeleteRace == \E note_id \in ConcIdArgs : Settled /\ DeleteCall(note_id)

FindRace == \E note_id \in ConcIdArgs : Settled /\ FindCall(note_id)

NextRace == NextConc \/ DeleteRace \/ FindRace

SpecRace == Init /\ [][NextRace]_vars

(* ------------------------------- claims -------------------------------- *)
RECURSIVE TextLess(_, _)
\* a < b for two timestamps of the same width, character by character.
TextLess(a, b) ==
    IF a = <<>> \/ b = <<>> THEN a = <<>> /\ b # <<>>
    ELSE IF a[1] = b[1] THEN TextLess(Tail(a), Tail(b))
    ELSE DigitVal(a[1]) < DigitVal(b[1])

TextLeq(a, b) == a = b \/ TextLess(a, b)

IsUpdate == last.op = "save" /\ last.matched

IsCreation == last.op = "save" /\ last.created

\* The rows the call found, the header row included.
RowsBefore == LoadWorkbook(EnsureDatabase(last.before))

\* The row save_note updated or delete_note removed.
HitRow == FirstOf(Matching(RowsBefore, last.arg))

\* C1: in a sequence of save calls made with no explicit ID, one after the
\* other, the returned IDs are strictly increasing and pairwise distinct.
C1_IncreasingIds ==
    \A i, j \in 1..Len(run) :
        i < j => /\ StrToInt(run[i]) < StrToInt(run[j])
                 /\ run[i] # run[j]

C1_Witness == Len(run) >= 2

\* C2: starting from an empty store, after any sequence of save and delete
\* calls, no two records returned by listAll have the same ID.
C2_UniqueIds ==
    last.op = "list" =>
        \A i, j \in 1..Len(last.listed) :
            i # j => last.listed[i].id # last.listed[j].id

\* listAll returns two records, the first no longer the one with ID 1: notes
\* were deleted and created before.
C2_Witness ==
    /\ last.op = "list"
    /\ Len(last.listed) = 2
    /\ StrToInt(last.listed[1].id) > 1

\* C3: when save(id, title, content) returns r, a find(r) made right after it
\* returns a record with exactly that title and content.
C3_RoundTrip ==
    (/\ last.op = "find"
     /\ last.prev.op = "save"
     /\ ~last.prev.raised
     /\ last.arg = StrV(last.prev.ret))
        => /\ last.found # <<>>
           /\ last.found[1].title = last.prev.title
           /\ last.found[1].content = last.prev.content

\* find after an update that saved an empty content.
C3_Witness ==
    /\ last.op = "find"
    /\ last.prev.op = "save"
    /\ last.prev.matched
    /\ last.arg = StrV(last.prev.ret)
    /\ last.prev.content = StrV(<<>>)
    /\ last.found # <<>>

\* C4: save(id, T, C) with id matching an existing row returns that id, leaves
\* the row's ID and DateCreated unchanged, sets title and content to T and C,
\* and sets LastModified to a timestamp that is not earlier than the old one.
C4_Update ==
    (/\ last.op = "save"
     /\ Truthy(last.arg)
     /\ HasMatch(last.before, last.arg))
        => /\ ~last.raised /\ ~last.created
           /\ last.ret = PyStr(last.arg)
           /\ Len(file.rows) = Len(RowsBefore)
           /\ file.rows[HitRow][1] = RowsBefore[HitRow][1]
           /\ file.rows[HitRow][4] = RowsBefore[HitRow][4]
           /\ OrEmpty(file.rows[HitRow][2]) = last.title
           /\ OrEmpty(file.rows[HitRow][3]) = last.content
           /\ TextLeq(RowsBefore[HitRow][5].s, file.rows[HitRow][5].s)

\* An update made in a later second than the row's creation.
C4_Witness ==
    /\ IsUpdate
    /\ TextLess(RowsBefore[HitRow][5].s, file.rows[HitRow][5].s)
    /\ file.rows[HitRow][2] # RowsBefore[HitRow][2]

\* C5 as stated: after an update, find returns a last_modified strictly later
\* than the one the note had before; at creation date_created = last_modified.
C5_StrictlyLater ==
    /\ IsUpdate =>
          TextLess(FindNote(last.before, last.arg)[1].last_modified.s,
                   FindNote(file, last.arg)[1].last_modified.s)
    /\ IsCreation =>
          FindNote(file, StrV(last.ret))[1].date_created
              = FindNote(file, StrV(last.ret))[1].last_modified

\* C5, amended: after an update, find returns the timestamp of the update's
\* clock reading, which is not earlier than the one the note had before and is
\* strictly later exactly when that reading falls in a later second; at
\* creation date_created = last_modified.
C5_NotEarlier ==
    /\ IsUpdate =>
          LET old == FindNote(last.before, last.arg)[1].last_modified
              new == FindNote(file, last.arg)[1].last_modified
          IN  /\ new = Strftime(last.at)
              /\ TextLeq(old.s, new.s)
              /\ TextLess(old.s, new.s) <=> old # Strftime(last.at)
    /\ IsCreation =>
          FindNote(file, StrV(last.ret))[1].date_created
              = FindNote(file, StrV(last.ret))[1].last_modified

\* An update that changes the title within the second of the previous
\* modification, at a clock reading past the start of that second.
C5_Witness ==
    /\ IsUpdate
    /\ FindNote(last.before, last.arg)[1].last_modified
           = FindNote(file, last.arg)[1].last_modified
    /\ last.at % TicksPerSecond # 0
    /\ last.before.rows[HitRow][2] # file.rows[HitRow][2]

\* C6: delete(id) followed at once by find(id) returns absent.
C6_DeleteThenFind ==
    (/\ last.op = "find"
     /\ last.prev.op = "delete"
     /\ last.prev.arg = last.arg)
        => last.found = <<>>

\* find after a delete that removed a row.
C6_Witness ==
    /\ last.op = "find"
    /\ last.prev.op = "delete"
    /\ last.prev.arg = last.arg
    /\ last.prev.matched

\* C7: delete(id) with an id that find reports as absent raises nothing and
\* leaves the store as it was: the header and every data row.
C7_DeleteAbsent ==
    (/\ last.op = "delete"
     /\ FindNote(last.before, last.arg) = <<>>)
        => /\ ~last.raised
           /\ file.exists
           /\ file.rows = RowsBefore
           /\ file.rows[1] = HEADERS

\* delete of an absent id from a store that holds a note.
C7_Witness ==
    /\ last.op = "delete"
    /\ FindNote(last.before, last.arg) = <<>>
    /\ Len(RowsBefore) >= 2
    /\ last.before.exists

\* Whether the save call in last was one the claim calls a creation.
C8_Case ==
    /\ last.op = "save"
    /\ ~Truthy(last.arg) \/ ~HasMatch(last.before, last.arg)

\* What C8 says of a creation, but for the supplied id.
C8_Appends ==
    LET n == Len(RowsBefore) + 1
    IN  /\ last.created /\ ~last.raised
        /\ Len(file.rows) = n
        /\ SubSeq(file.rows, 1, n - 1) = RowsBefore
        /\ file.rows[n][1] = IntV(GetNextId(LoadNotes(last.before)))
        /\ file.rows[n][4] = file.rows[n][5]
        /\ OrEmpty(file.rows[n][2]) = last.title
        /\ OrEmpty(file.rows[n][3]) = last.content
        /\ last.ret = PyStr(file.rows[n][1])

\* C8 as stated: save with no id, or with an id that matches no row, appends
\* one row whose ID is nextId of the current records and never the supplied
\* id, with date_created = last_modified, leaves the other rows unchanged and
\* returns the new ID.
C8_NeverSupplied ==
    C8_Case => C8_Appends /\ last.ret # PyStr(last.arg)

\* C8, amended: the new row's ID is nextId of the current records whatever id
\* was supplied; it equals the supplied id exactly when that id is the decimal
\* text of nextId.
C8_Creation ==
    C8_Case =>
        /\ C8_Appends
        /\ (Truthy(last.arg) /\ last.ret = PyStr(last.arg))
               <=> last.arg = StrV(IntToStr(GetNextId(LoadNotes(last.before))))

\* A creation for a supplied id that matches no row and is not the next id.
C8_Witness ==
    /\ C8_Case
    /\ Truthy(last.arg)
    /\ last.ret # PyStr(last.arg)
    /\ Len(RowsBefore) >= 2

\* C9: nextId is 1 for no records and otherwise the largest existing ID plus
\* one, so a new note's ID is greater than every ID in the store.
C9_NextId ==
    IsCreation =>
        LET notes == LoadNotes(last.before)
            new == StrToInt(last.ret)
        IN  /\ notes = <<>> => new = 1
            /\ notes # <<>> =>
                  /\ \E i \in 1..Len(notes) : new = StrToInt(notes[i].id) + 1
                  /\ \A i \in 1..Len(notes) : StrToInt(notes[i].id) < new

\* A creation in a store whose first record was deleted: the number of records
\* and the largest ID differ.
C9_Witness ==
    /\ IsCreation
    /\ LoadNotes(last.before) # <<>>
    /\ StrToInt(last.ret) > Len(LoadNotes(last.before)) + 1

\* What the call of caller c makes of the file it loaded when no other call
\* overlaps it.
Alone(c) ==
    IF c.op = "save" THEN SaveNote(c.base, c.arg, c.title, c.content, c.at).file
    ELSE DeleteNote(c.base, c.arg)

\* Two calls have returned, all their reads found the file in the same
\* state, p wrote first and q wrote last.
LostUpdateCase(p, q) ==
    /\ p # q
    /\ procs[p].pc = "returned" /\ procs[q].pc = "returned"
    /\ ~procs[p].raised /\ ~procs[q].raised
    /\ procs[p].base = procs[q].base
    /\ procs[p].seen = procs[p].base
    /\ procs[q].seen = procs[q].base
    /\ writers = <<q, p>>

\* C10: when two mutating calls interleave so that both read the same prior
\* state, the later write wins: the store is what the later call alone makes
\* of that state, its saved text is found under the ID it returned, and the
\* earlier call's effect is gone although that call returned.
C10_LaterWriteWins ==
    \A p, q \in Procs :
        LostUpdateCase(p, q) =>
            /\ file = Alone(procs[q])
            /\ procs[q].op = "save" =>
                  /\ FindNote(file, StrV(procs[q].ret)) # <<>>
                  /\ FindNote(file, StrV(procs[q].ret))[1].title = procs[q].title
                  /\ FindNote(file, StrV(procs[q].ret))[1].content
                         = OrEmpty(procs[q].content)

\* Two overlapping saves created a note each and returned the same ID; the
\* store holds the later one's text and not the earlier one's.
C10_Witness ==
    \E p, q \in Procs :
        /\ LostUpdateCase(p, q)
        /\ procs[p].op = "save" /\ procs[q].op = "save"
        /\ procs[p].arg = NoneV /\ procs[q].arg = NoneV
        /\ procs[p].ret = procs[q].ret
        /\ procs[p].title # procs[q].title
        /\ Len(LoadNotes(file)) = Len(LoadNotes(procs[p].base)) + 1
        /\ \A i \in 1..Len(LoadNotes(file)) : LoadNotes(file)[i].title # procs[p].title

\* A cell that holds nothing a record can be identified by: empty, 0 or "".
NoId(c) == c = NoneV \/ c = IntV(0) \/ c = StrV(<<>>)

\* The data rows of the file before the call that carry an ID, and the row
\* behind the k-th listed record.
IdRows == {i \in 2..Len(RowsBefore) : ~NoId(RowsBefore[i][1])}

KthIdRow(k) == CHOOSE i \in IdRows : Cardinality({j \in IdRows : j < i}) = k - 1

\* A text field as listed: its text, the empty text where the cell is empty.
FieldText(c) == IF c = NoneV THEN <<>> ELSE PyStr(c)

\* C11: listAll returns exactly the data rows whose ID cell is truthy, in row
\* order, each with its ID as text and a missing text field as the empty
\* text; rows with an empty or zero ID cell are skipped.
C11_ListAll ==
    last.op = "list" =>
        /\ ~last.raised
        /\ Len(last.listed) = Cardinality(IdRows)
        /\ \A k \in 1..Len(last.listed) :
              LET row == RowsBefore[KthIdRow(k)]
                  note == last.listed[k]
              IN  /\ note.id = PyStr(row[1])
                  /\ PyStr(note.title) = FieldText(row[2])
                  /\ PyStr(note.content) = FieldText(row[3])
                  /\ PyStr(note.date_created) = FieldText(row[4])
                  /\ PyStr(note.last_modified) = FieldText(row[5])
                  /\ note.title.t = "str" /\ note.content.t = "str"

\* A listing that skipped a row without an ID and returned the row after it.
C11_Witness ==
    /\ last.op = "list"
    /\ Len(RowsBefore) = 3
    /\ NoId(RowsBefore[2][1])
    /\ Len(last.listed) = 1
    /\ last.listed[1].id = PyStr(RowsBefore[3][1])

\* C12: ensureInitialized creates a store holding only the header row when
\* the backing file is absent and leaves an existing file completely
\* unchanged, so a second call changes nothing; the operations that only
\* read (find, listAll) leave the file as ensureInitialized leaves it.
C12_EnsureIdempotent ==
    last.op \in {"ensure", "find", "list"} =>
        /\ last.before.exists => file = last.before
        /\ ~last.before.exists => file = [exists |-> TRUE, rows |-> <<HEADERS>>]
        /\ EnsureDatabase(file) = file

\* ensureInitialized called on a file that holds records.
C12_Witness ==
    /\ last.op = "ensure"
    /\ last.before.exists
    /\ Len(last.before.rows) >= 2
    /\ file = last.before

\* C13: in every reachable state of an existing file row 1 is the five-column
\* header; whatever the id argument, the text of the header's own ID cell
\* included, the header row is never returned as a record, never updated and
\* never deleted.
C13_HeaderKept ==
    /\ file.exists => Len(file.rows) >= 1 /\ file.rows[1] = HEADERS
    /\ Len(HEADERS) = 5
    /\ last.op = "list" =>
          \A k \in 1..Len(last.listed) :
              \E i \in 2..Len(RowsBefore) : last.listed[k].id = PyStr(RowsBefore[i][1])
    /\ last.op = "find" /\ last.found # <<>> =>
          \E i \in 2..Len(RowsBefore) : last.found[1].id = PyStr(RowsBefore[i][1])
    /\ last.op \in {"save", "delete"} /\ ~last.raised =>
          /\ file.rows[1] = RowsBefore[1]
          /\ last.arg = HEADERS[1] => Len(file.rows) >= Len(RowsBefore)

\* A delete asked for the text of the header's ID cell on a file with records.
C13_Witness ==
    /\ last.op = "delete"
    /\ last.arg = HEADERS[1]
    /\ Len(RowsBefore) >= 2
    /\ file.rows = RowsBefore

\* The note asked for is among the records of the file before the call.
NoteExists == \E i \in IdRows : PyStr(RowsBefore[i][1]) = PyStr(last.arg)

\* C14: export produces an encrypted payload only when the password is not
\* empty and the note exists; with an empty password it ends before any
\* lookup or encryption, with a missing note it falls back to the listing
\* view, and in neither case is encrypt_note called or a record changed (an
\* absent file is at most initialised with its header by the lookup).
C14_ExportGuards ==
    last.op = "export" =>
        /\ last.encrypted <=> (last.password # <<>> /\ NoteExists)
        /\ last.encrypted <=> last.payload # <<>>
        /\ last.encrypted <=> last.outcome = "send_file"
        /\ last.password = <<>> =>
              /\ last.outcome = "view_note"
              /\ ~last.looked
              /\ file = last.before
        /\ last.password # <<>> /\ ~NoteExists =>
              /\ last.outcome = "index"
              /\ last.before.exists => file = last.before
              /\ ~last.before.exists => file.rows = <<HEADERS>>

\* An export with a password for a note that is not among the records.
C14_Witness ==
    /\ last.op = "export"
    /\ last.password # <<>>
    /\ IdRows # {}
    /\ ~NoteExists
    /\ last.outcome = "index"

\* What the holder of an exported file does with it: split at the newline,
\* decode the salt, derive the key, open the token.  Fernet authenticates
\* the token: a key other than the one that made it raises InvalidToken,
\* written <<>>; the right key gives back the plaintext.
B64Decode(text) == text.b64

FernetDecrypt(key, token) == IF token.key = key THEN <<token.plaintext>> ELSE <<>>

DecryptPayload(payload, password) ==
    FernetDecrypt(DeriveKey(password, B64Decode(payload[1])), payload[3])

\* The passwords tried on an exported file.
TriedPasswords == {<<"p">>, <<"q">>}

\* The row of the exported note and the block its four fields make.
ExportedRow == RowsBefore[FirstOf({i \in IdRows : PyStr(RowsBefore[i][1]) = PyStr(last.arg)})]

Line(label, text) == label \o <<":", " ">> \o text \o <<"\n">>

ExpectedBlock ==
    Line(<<"T", "i", "t", "l", "e">>, FieldText(ExportedRow[2]))
    \o Line(<<"C", "r", "e", "a", "t", "e", "d">>, FieldText(ExportedRow[4]))
    \o Line(<<"L", "a", "s", "t", " ", "M", "o", "d", "i", "f", "i", "e", "d">>,
            FieldText(ExportedRow[5]))
    \o <<"\n">> \o FieldText(ExportedRow[3])

\* C15: the payload of encrypt_note is the encoded salt, a newline and a
\* token; opening the token with the key derived from the same password and
\* the embedded salt gives exactly the block built from the note's title,
\* date_created, last_modified and content, and with any other password the
\* decryption fails.
C15_RoundTrip ==
    last.op = "export" /\ last.encrypted =>
        /\ Len(last.payload) = 3
        /\ last.payload[2] = "\n"
        /\ B64Decode(last.payload[1]) \in Salts
        /\ \A password \in TriedPasswords :
              DecryptPayload(last.payload, password) =
                  IF password = last.password THEN <<ExpectedBlock>> ELSE <<>>

\* A note with title, content and two different dates was exported.
C15_Witness ==
    /\ last.op = "export"
    /\ last.encrypted
    /\ ExportedRow[3] # NoneV
    /\ ExportedRow[4] # ExportedRow[5]
    /\ DecryptPayload(last.payload, last.password) = <<ExpectedBlock>>

\* The ID cell of row i of the file before the call reads like the argument.
ReadsLikeArg(i) == PyStr(RowsBefore[i][1]) = PyStr(last.arg)

\* The first data row that does.
TargetRow ==
    CHOOSE i \in 2..Len(RowsBefore) :
        ReadsLikeArg(i) /\ \A j \in 2..(i - 1) : ~ReadsLikeArg(j)

\* C16: a mutation touches only its target row.  An update leaves every
\* other row and the row order as they were (and the target's ID and
\* DateCreated); a creation appends one row below the others; a delete
\* removes exactly the first row whose ID matches and the remaining rows
\* keep their fields and order; a delete without a match changes no row.
C16_Frame ==
    /\ IsUpdate =>
          /\ Len(file.rows) = Len(RowsBefore)
          /\ \A i \in 1..Len(RowsBefore) : i # TargetRow => file.rows[i] = RowsBefore[i]
          /\ file.rows[TargetRow][1] = RowsBefore[TargetRow][1]
          /\ file.rows[TargetRow][4] = RowsBefore[TargetRow][4]
    /\ IsCreation =>
          /\ Len(file.rows) = Len(RowsBefore) + 1
          /\ SubSeq(file.rows, 1, Len(RowsBefore)) = RowsBefore
    /\ last.op = "delete" /\ last.matched =>
          /\ Len(file.rows) = Len(RowsBefore) - 1
          /\ \A i \in 1..Len(file.rows) :
                file.rows[i] = IF i < TargetRow THEN RowsBefore[i] ELSE RowsBefore[i + 1]
    /\ last.op = "delete" /\ ~last.matched => file.rows = RowsBefore

\* Of two different rows with the same ID a delete removed the upper one.
C16_Witness ==
    /\ last.op = "delete"
    /\ Len(RowsBefore) = 3
    /\ ReadsLikeArg(2) /\ ReadsLikeArg(3)
    /\ RowsBefore[2] # RowsBefore[3]
    /\ file.rows = <<RowsBefore[1], RowsBefore[3]>>

\* C17: whatever the interleaving of the file reads and writes of
\* overlapping save and delete calls, the backing file never holds two data
\* rows with the same ID.
C17_NoDuplicateIds ==
    file.exists =>
        \A i, j \in 2..Len(file.rows) :
            i # j => PyStr(file.rows[i][1]) # PyStr(file.rows[j][1])

\* C18 as stated: an ID that save has returned is never returned by a later
\* creation again.
C18_NeverReissued ==
    \A i, j \in 1..Len(run) : i # j => run[i] # run[j]

\* C18: the ID of a new note depends only on the records present at the
\* call: it is 1 for an empty store and otherwise one more than the greatest
\* ID present, hence greater than every ID present; the IDs of deleted
\* records are not remembered.
C18_AboveLive ==
    IsCreation =>
        /\ IdRows = {} => last.ret = <<"1">>
        /\ \A i \in IdRows : StrToInt(last.ret) > StrToInt(PyStr(RowsBefore[i][1]))
        /\ IdRows # {} =>
              \E i \in IdRows : StrToInt(last.ret) = StrToInt(PyStr(RowsBefore[i][1])) + 1

\* The note with the highest ID was deleted and the next creation returned
\* its ID again.
C18_Witness ==
    /\ IsCreation
    /\ Len(run) >= 2
    /\ run[Len(run)] = run[Len(run) - 1]
    /\ \A i \in IdRows : StrToInt(last.ret) > StrToInt(PyStr(RowsBefore[i][1]))

\* C19: save, delete and find agree on which rows exist: the row an update
\* changes or a delete removes is a row that find returns for the same id,
\* so a row without an ID (an empty cell, read as the text "None", or 0),
\* which listAll skips, is never updated or deleted.
C19_Agree ==
    (IsUpdate \/ (last.op = "delete" /\ last.matched)) =>
        /\ ~NoId(RowsBefore[TargetRow][1])
        /\ FindNote(last.before, last.arg) # <<>>
        /\ \A i \in 2..Len(file.rows) :
              NoId(file.rows[i][1]) => \E j \in 2..Len(RowsBefore) : RowsBefore[j] = file.rows[i]

====
